---- MODULE Spec2Model ----
(***************************************************************************)
(* Model of cmem-plugin-splitfile.                                         *)
(*                                                                         *)
(*  - SplitGroupedPrefix.bygroupedprefix (split_by_grouped_prefix.py):     *)
(*    the grouped-prefix splitter, one action per iteration of its         *)
(*    `while True` loop.  Specification: Spec.                             *)
(*  - SplitFilePlugin.execute (plugin_splitfile.py): the orchestration     *)
(*    around a splitter.  Specification: PluginSpec.                       *)
(*  - SplitFilePlugin.__init__ (plugin_splitfile.py): the validation of    *)
(*    the parameters.  Specification: ConstructSpec.                       *)
(*  - Split.bysize and Split.bylinecount of the filesplit package, which   *)
(*    split_file calls for a run without group_prefix: the fixed-budget    *)
(*    splitter, modelled from its specification, one action per chunk.    *)
(*    Specification: FixedSpec.                                            *)
(*                                                                         *)
(* Bytes are modelled by the four characters "a", "b", "sp" (a blank) and  *)
(* "nl" (a newline); a file is a sequence of bytes.                        *)
(***************************************************************************)
EXTENDS Integers, Sequences, FiniteSets, TLC

\* ------------------------------------------------------------------ bounds
MaxPieces == 4
MaxSize == 4
MaxChunks == 3

\* ------------------------------------------------------- program constants
ZERO_FILL == 4
SPLIT_ZERO_FILL == 9
SPLIT_DELIMITER == "_"
MANIFEST_HEADER == <<"filename", "filesize", "header">>

\* --------------------------------------------------------- input alphabet
NL == "nl"
SP == "sp"
Whitespace == {SP, NL}

\* Input files are concatenations of up to MaxPieces of these pieces: a line
\* of one token, a line of two tokens with the same first token, a bare
\* newline (a blank line, or the end of a line begun by fragments) and two
\* fragments, a token byte and a blank, which begin a line (a line with
\* another first token, with leading or trailing blanks, a whitespace-only
\* line) or are the final line without a newline.
Pieces ==
    { <<"a", NL>>, <<"a", SP, "b", NL>>, <<NL>>, <<"b">>, <<SP>> }

RECURSIVE Flatten(_)
Flatten(ss) == IF ss = <<>> THEN <<>> ELSE Head(ss) \o Flatten(Tail(ss))

Inputs == UNION { { Flatten(f) : f \in [1..n -> Pieces] } : n \in 0..MaxPieces }

\* The scenario "A A A B B C C C C": three groups of 2-byte lines, 6, 4 and 8
\* bytes, under a budget of 10 bytes (the sizes 300, 200, 400 and the budget
\* 500 of the scenario, divided by 50).
ExampleA == <<"a", NL, "a", NL, "a", NL>>
ExampleB == <<"b", NL, "b", NL>>
ExampleC == <<"c", NL, "c", NL, "c", NL, "c", NL>>
ExampleInput == ExampleA \o ExampleB \o ExampleC
ExampleMaxsize == Len(ExampleA) + Len(ExampleB)

\* The name of the input file: ntpath.splitext gives stem and extension.
InputStem == "f"
InputExt == ".nt"

\* ---------------------------------------------------------- pure functions
\* reader.readline(): the bytes from position pos (0-based) up to and
\* including the next newline, or up to the end of the file.
RECURSIVE readlineTerminatedOnly(_, _)
readlineTerminatedOnly(data, pos) ==
    IF \A i \in (pos + 1)..Len(data) : data[i] # NL THEN <<>>
    ELSE IF data[pos + 1] = NL THEN <<NL>>
    ELSE <<data[pos + 1]>> \o readlineTerminatedOnly(data, pos + 1)

RECURSIVE readline(_, _)
readline(data, pos) ==
    IF pos >= Len(data) THEN <<>>
    ELSE IF data[pos + 1] = NL THEN <<NL>>
    ELSE <<data[pos + 1]>> \o readline(data, pos + 1)

\* bytes.strip(): empty iff every byte is whitespace.
StripIsEmpty(line) == \A i \in 1..Len(line) : line[i] \in Whitespace

RECURSIVE SkipSpace(_)
SkipSpace(s) ==
    IF s = <<>> THEN <<>>
    ELSE IF Head(s) \in Whitespace THEN SkipSpace(Tail(s)) ELSE s

RECURSIVE TakeWord(_)
TakeWord(s) ==
    IF s = <<>> THEN <<>>
    ELSE IF Head(s) \in Whitespace THEN <<>> ELSE <<Head(s)>> \o TakeWord(Tail(s))

\* line.split(maxsplit=1)[0] if line.strip() else b""
first_wordBlankIsLine(line) == IF StripIsEmpty(line) THEN line ELSE TakeWord(SkipSpace(line))
first_word(line) == IF StripIsEmpty(line) THEN <<>> ELSE TakeWord(SkipSpace(line))

\* current_prefix = None
None == <<"None">>

\* `elif first_word == current_prefix`
SamePrefixLine(line, cp) == line = cp
SamePrefix(line, cp) == first_word(line) = cp

RECURSIVE Digits(_)
Digits(n) == IF n < 10 THEN <<n>> ELSE Digits(n \div 10) \o <<n % 10>>

\* format(splitnum, "0" + str(width)): at least width digits, zero-padded.
RECURSIVE ZeroPad(_, _)
ZeroPad(ds, width) == IF Len(ds) >= width THEN ds ELSE ZeroPad(<<0>> \o ds, width)

FormatZero(n, width) == ZeroPad(Digits(n), width)

\* _getnextsplit: f"{fname}{self.splitdelimiter}{zsplitnum}{ext}"
GetNextSplitNoPad(num, width) ==
    [stem |-> InputStem, delim |-> SPLIT_DELIMITER, num |-> Digits(num), ext |-> InputExt]
_getnextsplit(num, width) ==
    [stem |-> InputStem, delim |-> SPLIT_DELIMITER, num |-> FormatZero(num, width),
     ext |-> InputExt]

\* Path(p).open("wb") + write: creates the file or truncates an existing one.
WriteFile(dir, name, data) ==
    { f \in dir : f.name # name } \cup { [name |-> name, data |-> data] }

\* `if current_size + group_size > maxsize: write_current_chunk()`
NeedFlushAlways(cur, grp, max) == cur + grp > 0
NeedFlushAtLimit(cur, grp, max) == cur + grp >= max
NeedFlushOffByOne(cur, grp, max) == cur + grp > max + 1
NeedFlush(cur, grp, max) == cur + grp > max

\* `if group_size > maxsize: raise ValueError(...)`
GroupTooLargeOffByOne(grp, max) == grp > max + 1
GroupTooLarge(grp, max) == grp > max

\* The two ValueError messages of bygroupedprefix: the text, the prefix
\* formatted into it (None: the message has no prefix) and the quote
\* character put around the prefix.
OverflowMessage(prefix) ==
    [text |-> "Group with prefix {} exceeds max file size.", prefix |-> prefix, quote |-> "'"]
OverflowAtEndMessage ==
    [text |-> "Group exceeds max split file size limit.", prefix |-> None, quote |-> ""]

\* ------------------------------------------------------------------- state
VARIABLES
    inputfile,        \* the bytes of the input file
    maxsize,          \* bygroupedprefix(maxsize=...)
    splitzerofill,    \* self._splitzerofill
    hasCallback,      \* whether bygroupedprefix was given a callback
    terminate,        \* self._terminate
    pc,               \* "init", "loop", "done", "terminated", "error"
    pos,              \* reader position in inputfile (bytes read so far)
    splitnum, current_chunk, current_size,     \* locals of bygroupedprefix
    prefix_buffer, current_prefix,
    outputdir,        \* files in self._outputdir: a set of [name, data]
    manifest,         \* rows of the manifest file, header row first
    calls,            \* callback invocations so far: [path, size, rows, set]
    written,          \* history: the chunk files written so far, [name, data]
    raised            \* the exception raised: [type, msg], or None

svars == <<inputfile, maxsize, splitzerofill, hasCallback, terminate, pc, pos,
           splitnum, current_chunk, current_size, prefix_buffer, current_prefix,
           outputdir, manifest, calls, written, raised>>

\* State of SplitFilePlugin.execute and of its environment.
VARIABLES
    group_prefix, delete_previous_result,    \* parameters kept by __init__
    delete_input_file, use_directory,
    custom_target_directory,  \* "": not set; "custom": an existing directory;
                      \* "absent": a path at which there is no directory
    inputState,       \* the input resource: "missing", "empty", "ok", "deleted"
    nchunks,          \* chunks the fixed-budget splitter cuts the input into
    hasWorkflow,      \* hasattr(self.context, "workflow")
    wfStatus,         \* self.context.workflow.status()
    ppc,              \* "idle", "execute", "prepare", "split", "move",
                      \* "returned", "failed"
    split_terminate,  \* self.split.terminate
    split_filenames,  \* self.split_filenames (the chunks' ordinals)
    moved_files,      \* self.moved_files
    last_file,        \* self.last_file
    stores,           \* the files, [name, data], other than the input, in the
                      \* custom directory, the resources directory and the
                      \* project's API resources
    report,           \* the last context.report.update
    perr,             \* the exception execute raised, or "none"
    cancelSeen,       \* history: a poll in split_callback or the move loop was true
    lastPoll,         \* history: the result of the latest cancel_workflow poll
    flapped,          \* history: a poll was false after a poll was true
    stores0,          \* history: stores when execute was called
    io                \* history: the kinds of I/O side effects so far

\* What execute never assigns.
pconfig == <<group_prefix, delete_previous_result, delete_input_file, use_directory,
             custom_target_directory, nchunks, hasWorkflow, stores0>>

pvars == <<pconfig, inputState, wfStatus, ppc, split_terminate,
           split_filenames, moved_files, last_file, stores, report, perr,
           cancelSeen, lastPoll, flapped, io>>

\* State of one construction of a SplitFilePlugin.
VARIABLES
    args,             \* the arguments __init__ is called with
    cpc,              \* "idle", "new", "constructed", "raised"
    plugin,           \* the attributes __init__ assigned, or None
    cerr              \* the exception __init__ raised: [type, msgs], or None

cvars == <<args, cpc, plugin, cerr>>

\* State of one run of the fixed-budget splitter.
VARIABLES
    f_input,          \* the bytes of the input file
    f_lines,          \* TRUE: bylinecount, FALSE: bysize (newline=True)
    f_budget,         \* linecount, or size in bytes
    f_includeheader,  \* the includeheader argument
    f_headerInBudget, \* bysize: a duplicated header counts toward size
    f_pc,             \* "idle", "split", "done", "terminated"
    f_pos,            \* reader position: bytes of the input consumed
    f_terminate,      \* the terminate flag
    f_written         \* chunk files written, in order: [name, data]

fvars == <<f_input, f_lines, f_budget, f_includeheader, f_headerInBudget, f_pc,
           f_pos, f_terminate, f_written>>

vars == <<svars, pvars, cvars, fvars>>

\* write_current_chunk, lines 237-243: the manifest row of a chunk.
ManifestRowHeaderTrue(name, splitsize) ==
    [filename |-> name, filesize |-> splitsize, header |-> TRUE]
ManifestRow(name, splitsize) ==
    [filename |-> name, filesize |-> splitsize, header |-> FALSE]

\* The locals and files write_current_chunk reads and writes, as one record.
Locals ==
    [splitnum |-> splitnum, chunk |-> current_chunk, size |-> current_size,
     dir |-> outputdir, manifest |-> manifest, calls |-> calls, written |-> written,
     terminate |-> terminate]

\* write_current_chunk(); cb is what this invocation of the callback does to
\* the terminate flag (TRUE: it sets it).
write_current_chunk(s, cb) ==
    IF Len(s.chunk) = 0 THEN s
    ELSE LET name == _getnextsplit(s.splitnum, splitzerofill)
             d2 == WriteFile(s.dir, name, s.chunk)
             splitsize == Len((CHOOSE f \in d2 : f.name = name).data)
             row == ManifestRow(name, splitsize)
         IN [splitnum |-> s.splitnum + 1,
             chunk |-> <<>>,
             size |-> 0,
             dir |-> d2,
             manifest |-> Append(s.manifest, row),
             calls |-> IF hasCallback
                       THEN Append(s.calls, [path |-> name, size |-> splitsize,
                                             rows |-> Len(s.manifest) + 1, set |-> cb])
                       ELSE s.calls,
             written |-> Append(s.written, [name |-> name, data |-> s.chunk]),
             terminate |-> IF hasCallback THEN (s.terminate \/ cb) ELSE s.terminate]

SetLocals(s) ==
    /\ splitnum' = s.splitnum
    /\ current_chunk' = s.chunk
    /\ current_size' = s.size
    /\ outputdir' = s.dir
    /\ manifest' = s.manifest
    /\ calls' = s.calls
    /\ written' = s.written
    /\ terminate' = s.terminate

\* The caller's configurations of one run: the input, the budget, the zero
\* fill (the class default or the plugin's), with or without a callback, and
\* possibly with the terminate flag already set.
SInit ==
    /\ \/ inputfile \in Inputs /\ maxsize \in 2..MaxSize
       \/ inputfile = ExampleInput /\ maxsize = ExampleMaxsize
    /\ splitzerofill \in {ZERO_FILL, SPLIT_ZERO_FILL}
    /\ hasCallback \in BOOLEAN
    /\ terminate \in BOOLEAN
    /\ pc = "init"
    /\ pos = 0
    /\ splitnum = 0
    /\ current_chunk = <<>>
    /\ current_size = 0
    /\ prefix_buffer = <<>>
    /\ current_prefix = None
    /\ outputdir = {}
    /\ manifest = <<>>
    /\ calls = <<>>
    /\ written = <<>>
    /\ raised = None

\* bygroupedprefix, lines 217-250: open the reader and the manifest, write
\* the manifest header, initialise the locals.
Start ==
    /\ UNCHANGED <<pvars, cvars, fvars>>
    /\ pc = "init"
    /\ pc' = "loop"
    /\ manifest' = <<MANIFEST_HEADER>>
    /\ splitnum' = 1
    /\ current_chunk' = <<>>
    /\ current_size' = 0
    /\ prefix_buffer' = <<>>
    /\ current_prefix' = None
    /\ UNCHANGED <<inputfile, maxsize, splitzerofill, hasCallback, terminate, pos,
                   outputdir, calls, written, raised>>

\* Loop head, lines 253-256: `if self.terminate: break`.
TerminateBreakAfterLine ==
    /\ UNCHANGED <<pvars, cvars, fvars>>
    /\ pc = "loop"
    /\ terminate
    /\ pc' = "terminated"
    /\ pos' = pos + Len(readline(inputfile, pos))
    /\ UNCHANGED <<inputfile, maxsize, splitzerofill, hasCallback, terminate,
                   splitnum, current_chunk, current_size, prefix_buffer,
                   current_prefix, outputdir, manifest, calls, written, raised>>
TerminateBreak ==
    /\ UNCHANGED <<pvars, cvars, fvars>>
    /\ pc = "loop"
    /\ terminate
    /\ pc' = "terminated"
    /\ UNCHANGED <<inputfile, maxsize, splitzerofill, hasCallback, terminate, pos,
                   splitnum, current_chunk, current_size, prefix_buffer,
                   current_prefix, outputdir, manifest, calls, written, raised>>

\* Lines 258-269: readline returns b"": flush the last group and the chunk.
EndOfStream ==
    /\ UNCHANGED <<pvars, cvars, fvars>>
    /\ pc = "loop"
    /\ ~terminate
    /\ readline(inputfile, pos) = <<>>
    /\ LET group_size == Len(prefix_buffer)
       IN IF group_size > 0 /\ GroupTooLarge(group_size, maxsize)
          THEN /\ pc' = "error"
               /\ raised' = [type |-> "ValueError", msg |-> OverflowAtEndMessage]
               /\ UNCHANGED <<terminate, splitnum, current_chunk, current_size,
                              outputdir, manifest, calls, written>>
          ELSE \E cb1, cb2 \in BOOLEAN :
               \E s0 \in {Locals} :
               \E s1 \in {IF group_size > 0 /\ NeedFlush(s0.size, group_size, maxsize)
                          THEN write_current_chunk(s0, cb1) ELSE s0} :
               \E s2 \in {IF group_size > 0
                          THEN [s1 EXCEPT !.chunk = s1.chunk \o prefix_buffer]
                          ELSE s1} :
               \E s3 \in {write_current_chunk(s2, cb2)} :
                    /\ SetLocals(s3)
                    /\ pc' = "done"
                    /\ UNCHANGED raised
    /\ UNCHANGED <<inputfile, maxsize, splitzerofill, hasCallback, pos,
                   prefix_buffer, current_prefix>>

\* Lines 271-274: the first line of the stream opens the first group.
FirstLine ==
    /\ UNCHANGED <<pvars, cvars, fvars>>
    /\ pc = "loop"
    /\ ~terminate
    /\ LET line == readline(inputfile, pos)
       IN /\ line # <<>>
          /\ current_prefix = None
          /\ current_prefix' = first_word(line)
          /\ prefix_buffer' = prefix_buffer \o line
          /\ pos' = pos + Len(line)
    /\ UNCHANGED <<inputfile, maxsize, splitzerofill, hasCallback, terminate, pc,
                   splitnum, current_chunk, current_size, outputdir, manifest,
                   calls, written, raised>>

\* Lines 275-276: a line with the prefix of the open group extends it.
SameGroupLine ==
    /\ UNCHANGED <<pvars, cvars, fvars>>
    /\ pc = "loop"
    /\ ~terminate
    /\ LET line == readline(inputfile, pos)
       IN /\ line # <<>>
          /\ current_prefix # None
          /\ SamePrefix(line, current_prefix)
          /\ prefix_buffer' = prefix_buffer \o line
          /\ pos' = pos + Len(line)
    /\ UNCHANGED <<inputfile, maxsize, splitzerofill, hasCallback, terminate, pc,
                   splitnum, current_chunk, current_size, current_prefix,
                   outputdir, manifest, calls, written, raised>>

\* Lines 277-291: a line with another prefix closes the open group.
NewGroupLine ==
    /\ UNCHANGED <<pvars, cvars, fvars>>
    /\ pc = "loop"
    /\ ~terminate
    /\ LET line == readline(inputfile, pos)
           group_data == prefix_buffer
           group_size == Len(group_data)
       IN /\ line # <<>>
          /\ current_prefix # None
          /\ ~SamePrefix(line, current_prefix)
          /\ pos' = pos + Len(line)
          /\ IF GroupTooLarge(group_size, maxsize)
             THEN /\ pc' = "error"
                  /\ raised' = [type |-> "ValueError", msg |-> OverflowMessage(current_prefix)]
                  /\ UNCHANGED <<terminate, splitnum, current_chunk, current_size,
                                 outputdir, manifest, calls, written, prefix_buffer,
                                 current_prefix>>
             ELSE \E cb \in BOOLEAN :
                  \E s0 \in {Locals} :
                  \E s1 \in {IF NeedFlush(s0.size, group_size, maxsize)
                             THEN write_current_chunk(s0, cb) ELSE s0} :
                  \E s2 \in {[s1 EXCEPT !.chunk = s1.chunk \o group_data,
                                        !.size = s1.size + group_size]} :
                       /\ SetLocals(s2)
                       /\ prefix_buffer' = line
                       /\ current_prefix' = first_word(line)
                       /\ UNCHANGED <<pc, raised>>
    /\ UNCHANGED <<inputfile, maxsize, splitzerofill, hasCallback>>

SNext == Start \/ TerminateBreak \/ EndOfStream \/ FirstLine \/ SameGroupLine \/ NewGroupLine

\* No plugin is executing: bygroupedprefix is called directly.
PIdle ==
    /\ group_prefix = FALSE /\ delete_previous_result = FALSE
    /\ delete_input_file = FALSE /\ use_directory = FALSE
    /\ custom_target_directory = ""
    /\ inputState = "ok" /\ nchunks = 0
    /\ hasWorkflow = FALSE /\ wfStatus = "Running"
    /\ ppc = "idle" /\ split_terminate = FALSE
    /\ split_filenames = <<>> /\ moved_files = 0 /\ last_file = 0
    /\ stores = <<>> /\ stores0 = <<>> /\ io = {}
    /\ report = None /\ perr = "none"
    /\ cancelSeen = FALSE /\ lastPoll = FALSE /\ flapped = FALSE

\* No plugin is being constructed.
CIdle == args = None /\ cpc = "idle" /\ plugin = None /\ cerr = None

\* No fixed-budget splitter is running.
FIdle ==
    /\ f_input = <<>> /\ f_lines = FALSE /\ f_budget = 0
    /\ f_includeheader = FALSE /\ f_headerInBudget = FALSE /\ f_pc = "idle"
    /\ f_pos = 0 /\ f_terminate = FALSE /\ f_written = <<>>

Init == SInit /\ PIdle /\ CIdle /\ FIdle

Spec == Init /\ [][SNext]_vars

\* bygroupedprefix runs in the caller's thread and nothing in it waits: a
\* step that can be taken is taken.
LiveSpec == Init /\ [][SNext]_vars /\ WF_vars(SNext)

\* ------------------------------------------------- SplitFilePlugin.execute
\* cancel_workflow()
cancel_workflow == hasWorkflow /\ wfStatus # "Running"

\* Bookkeeping of a cancel_workflow poll with result r.
Polled(r) ==
    /\ lastPoll' = r
    /\ flapped' = (flapped \/ (lastPoll /\ ~r))

\* execute, lines 394 and 397-399: the reports before splitting.
InitialReport == [entity_count |-> 0, text |-> "files generated", marker |-> ""]
EarlyCancelReport ==
    [entity_count |-> 0, text |-> "files generated", marker |-> " (cancelled"]

\* execute, lines 405-410: the final report.
FinalReportNoMarker(moved, finished) ==
    [entity_count |-> moved,
     text |-> IF moved = 1 THEN "file generated" ELSE "files generated",
     marker |-> ""]
FinalReport(moved, finished) ==
    [entity_count |-> moved,
     text |-> IF moved = 1 THEN "file generated" ELSE "files generated",
     marker |-> IF finished THEN "" ELSE " (cancelled)"]

\* execute_split, lines 251-260, and get_file_api, lines 376-379: the
\* exception raised for the input, or "none".
InputErrorMissingOnly ==
    IF inputState = "missing"
    THEN IF use_directory THEN "FileNotFoundError" ELSE "HTTPError"
    ELSE "none"
InputError ==
    IF use_directory
    THEN IF inputState = "missing" THEN "FileNotFoundError"
         ELSE IF inputState = "empty" THEN "OSError" ELSE "none"
    ELSE IF inputState = "missing" THEN "HTTPError"
         ELSE IF inputState = "empty" THEN "OSError" ELSE "none"

Max(S) == CHOOSE x \in S : \A y \in S : y <= x

\* int(m.group(1)): the value of a sequence of decimal digits.
RECURSIVE DigitsValue(_)
DigitsValue(ds) ==
    IF ds = <<>> THEN 0 ELSE 10 * DigitsValue(SubSeq(ds, 1, Len(ds) - 1)) + ds[Len(ds)]

\* The name of the input file, and of chunk n of a run of the plugin.
InputName == [stem |-> InputStem, delim |-> "", num |-> <<>>, ext |-> InputExt]
ChunkName(n) == _getnextsplit(n, SPLIT_ZERO_FILL)

\* fname_pattern: ^{re.escape(stem)}_(\d{9}){re.escape(suffix)}$
MatchesPreviousAnyWidth(name) ==
    /\ name.stem = InputStem
    /\ name.ext = InputExt
    /\ \A i \in 1..Len(name.num) : name.num[i] \in 0..9
MatchesPrevious(name) ==
    /\ name.stem = InputStem
    /\ name.delim = "_"
    /\ Len(name.num) = SPLIT_ZERO_FILL
    /\ \A i \in 1..Len(name.num) : name.num[i] \in 0..9
    /\ name.ext = InputExt

\* The places files are in: the custom target directory, the project's
\* resources directory and the project's resources behind the API.
Locations == {"custom", "resources", "api"}

\* Where delete_previous_results looks (lines 307-314) and where
\* move_or_upload_output_file puts a chunk (lines 335-340).
TargetLocation ==
    IF use_directory \/ custom_target_directory # ""
    THEN IF custom_target_directory # "" THEN custom_target_directory ELSE "resources"
    ELSE "api"

\* get_input_path, get_file_api: where the input file is.
InputLocation == IF use_directory THEN "resources" ELSE "api"

\* target_path.iterdir() / get_resources(project_id): the files of a place,
\* the input file included where it is.
Listing(loc) ==
    stores[loc] \cup
        IF loc = InputLocation /\ inputState \in {"ok", "empty"}
        THEN {[name |-> InputName, data |-> "input"]} ELSE {}

\* delete_previous_results over the files of the target: the files left
\* there afterwards and self.last_file.
PreviousResultsAnyMode(files) ==
    LET matching == { f \in files : MatchesPrevious(f.name) }
        numbers == IF ~delete_previous_result
                   THEN { DigitsValue(f.name.num) : f \in matching } ELSE {}
    IN [kept |-> IF delete_previous_result THEN files \ matching ELSE files,
        last_file |-> IF numbers # {} THEN Max(numbers) ELSE 0]
PreviousResults(files) ==
    LET matching == { f \in files : MatchesPrevious(f.name) }
        numbers == IF ~delete_previous_result /\ group_prefix
                   THEN { DigitsValue(f.name.num) : f \in matching } ELSE {}
    IN [kept |-> IF delete_previous_result THEN files \ matching ELSE files,
        last_file |-> IF numbers # {} THEN Max(numbers) ELSE 0]

\* move_or_upload_output_file: shutil.move onto the target path, or
\* create_resource(..., replace=True).
MoveOrUploadKeepExisting(dir, name, data) ==
    IF \E f \in dir : f.name = name THEN dir
    ELSE dir \cup { [name |-> name, data |-> data] }
move_or_upload_output_file(dir, name, data) ==
    { f \in dir : f.name # name } \cup { [name |-> name, data |-> data] }

\* The parameters of bygroupedprefix besides self (its signature), and the
\* keywords split_file calls it with.
BygroupedprefixParameters == {"maxsize", "callback"}
SplitFileKeywords == {"maxsize", "splitnum", "callback"}

\* What a place may hold when execute is called: the chunks 1 and 2 of an
\* earlier run and files whose names the pattern does not match (another
\* zero fill, another stem, another suffix).
PreviousFiles ==
    { [name |-> n, data |-> "previous"] :
        n \in { ChunkName(1), ChunkName(2),
                _getnextsplit(1, ZERO_FILL),
                [ChunkName(1) EXCEPT !.stem = "g"],
                [ChunkName(1) EXCEPT !.ext = ".csv"] } }

\* A plugin as constructed, its project and its workflow when execute is
\* called.
PInit ==
    /\ group_prefix \in BOOLEAN
    /\ delete_previous_result \in BOOLEAN
    /\ delete_input_file \in BOOLEAN
    /\ use_directory \in BOOLEAN
    /\ custom_target_directory \in {"", "custom", "absent"}
    /\ inputState \in {"missing", "empty", "ok"}
    /\ nchunks \in 1..MaxChunks
    /\ hasWorkflow \in BOOLEAN
    /\ wfStatus \in {"Running", "Canceling"}
    /\ ppc = "execute"
    /\ split_terminate = FALSE
    /\ split_filenames = <<>>
    /\ moved_files = 0
    /\ last_file = 0
    /\ stores \in [Locations -> {{}, PreviousFiles}]
    /\ stores0 = stores
    /\ io = {}
    /\ report = None
    /\ perr = "none"
    /\ cancelSeen = FALSE
    /\ lastPoll = FALSE
    /\ flapped = FALSE

\* No splitter is driven step by step while the plugin executes.
SIdle ==
    /\ inputfile = <<>> /\ maxsize = 0 /\ splitzerofill = SPLIT_ZERO_FILL
    /\ hasCallback = TRUE /\ terminate = FALSE /\ pc = "init" /\ pos = 0
    /\ splitnum = 0 /\ current_chunk = <<>> /\ current_size = 0
    /\ prefix_buffer = <<>> /\ current_prefix = None /\ outputdir = {}
    /\ manifest = <<>> /\ calls = <<>> /\ written = <<>> /\ raised = None

\* The workflow's status changes while execute runs (the environment).
WorkflowStatusChange ==
    /\ UNCHANGED <<svars, cvars, fvars>>
    /\ ppc \in {"execute", "prepare", "split", "move"}
    /\ hasWorkflow
    /\ wfStatus' = IF wfStatus = "Running" THEN "Canceling" ELSE "Running"
    /\ UNCHANGED <<pconfig, inputState, ppc, split_terminate, split_filenames,
                   moved_files, last_file, stores, report, perr, cancelSeen,
                   lastPoll, flapped, io>>

\* execute, lines 386-400: the check of the custom target directory (made in
\* directory mode only), the first report and the first poll.
ExecuteBegin ==
    /\ UNCHANGED <<svars, cvars, fvars>>
    /\ ppc = "execute"
    /\ IF use_directory /\ custom_target_directory = "absent"
       THEN /\ ppc' = "failed"
            /\ perr' = "ValueError"
            /\ UNCHANGED <<report, lastPoll, flapped>>
       ELSE /\ Polled(cancel_workflow)
            /\ IF cancel_workflow
               THEN report' = EarlyCancelReport /\ ppc' = "returned"
               ELSE report' = InitialReport /\ ppc' = "prepare"
            /\ UNCHANGED perr
    /\ UNCHANGED <<pconfig, inputState, wfStatus, split_terminate, split_filenames,
                   moved_files, last_file, stores, cancelSeen, io>>

\* execute_split, lines 251-262: fetch the input (API mode) and check it,
\* then delete_previous_results, whose iterdir() raises FileNotFoundError
\* when the target directory does not exist.
PrepareSplit ==
    /\ UNCHANGED <<svars, cvars, fvars>>
    /\ ppc = "prepare"
    /\ LET fetched == IF ~use_directory /\ inputState = "ok" THEN {"fetch"} ELSE {}
       IN IF InputError # "none"
          THEN /\ ppc' = "failed"
               /\ perr' = InputError
               /\ io' = io \cup fetched
               /\ UNCHANGED <<stores, last_file, inputState>>
          ELSE IF TargetLocation \notin Locations
          THEN /\ ppc' = "failed"
               /\ perr' = "FileNotFoundError"
               /\ io' = io \cup fetched
               /\ UNCHANGED <<stores, last_file, inputState>>
          ELSE LET files == Listing(TargetLocation)
                   r == PreviousResults(files)
                   input == { f \in files : f.data = "input" }
               IN /\ ppc' = "split"
                  /\ stores' = [stores EXCEPT ![TargetLocation] = r.kept \ input]
                  /\ inputState' = IF input \subseteq r.kept THEN inputState ELSE "deleted"
                  /\ last_file' = r.last_file
                  /\ io' = io \cup fetched \cup
                               (IF r.kept # files THEN {"delete_previous"} ELSE {})
                  /\ UNCHANGED perr
    /\ UNCHANGED <<pconfig, wfStatus, split_terminate, split_filenames, moved_files,
                   report, cancelSeen, lastPoll, flapped>>

\* split_file, lines 235-240: bygroupedprefix is called with a keyword its
\* signature does not have; Python raises TypeError before its body runs.
SplitFileGrouped ==
    /\ UNCHANGED <<svars, cvars, fvars>>
    /\ ppc = "split"
    /\ group_prefix
    /\ ~(SplitFileKeywords \subseteq BygroupedprefixParameters)
    /\ ppc' = "failed"
    /\ perr' = "TypeError"
    /\ UNCHANGED <<pconfig, inputState, wfStatus, split_terminate, split_filenames,
                   moved_files, last_file, stores, report, cancelSeen, lastPoll,
                   flapped, io>>

\* split_file, lines 219-234, and split_callback: the fixed-budget splitter
\* flushes its next chunk (numbered from 1) and invokes the callback.
FixedSplitChunk ==
    /\ UNCHANGED <<svars, cvars, fvars>>
    /\ ppc = "split"
    /\ ~group_prefix
    /\ ~split_terminate
    /\ Len(split_filenames) < nchunks
    /\ Polled(cancel_workflow)
    /\ split_terminate' = cancel_workflow
    /\ cancelSeen' = (cancelSeen \/ cancel_workflow)
    /\ split_filenames' = Append(split_filenames, Len(split_filenames) + 1)
    /\ io' = io \cup {"write_chunk"}
    /\ UNCHANGED <<pconfig, inputState, wfStatus, ppc, moved_files, last_file,
                   stores, report, perr>>

\* The fixed-budget splitter returns: end of input, or terminate is set.
FixedSplitReturn ==
    /\ UNCHANGED <<svars, cvars, fvars>>
    /\ ppc = "split"
    /\ ~group_prefix
    /\ split_terminate \/ Len(split_filenames) = nchunks
    /\ ppc' = "move"
    /\ UNCHANGED <<pconfig, inputState, wfStatus, split_terminate, split_filenames,
                   moved_files, last_file, stores, report, perr, cancelSeen,
                   lastPoll, flapped, io>>

MoveNextNoPoll ==
    /\ UNCHANGED <<svars, cvars, fvars>>
    /\ ppc = "move"
    /\ moved_files < Len(split_filenames)
    /\ stores' = [stores EXCEPT ![TargetLocation] =
                     move_or_upload_output_file(
                         @, ChunkName(split_filenames[moved_files + 1]), "chunk")]
    /\ moved_files' = moved_files + 1
    /\ io' = io \cup {"move"}
    /\ UNCHANGED <<pconfig, inputState, wfStatus, split_terminate, split_filenames,
                   last_file, perr, report, ppc, cancelSeen, lastPoll, flapped>>

\* execute_split, lines 266-270, and execute, lines 405-410: one iteration
\* of the move loop; on a true poll execute_split returns False and execute
\* writes the final report.
MoveNext ==
    /\ UNCHANGED <<svars, cvars, fvars>>
    /\ ppc = "move"
    /\ moved_files < Len(split_filenames)
    /\ Polled(cancel_workflow)
    /\ cancelSeen' = (cancelSeen \/ cancel_workflow)
    /\ IF cancel_workflow
       THEN /\ report' = FinalReport(moved_files, FALSE)
            /\ ppc' = "returned"
            /\ UNCHANGED <<stores, moved_files, io>>
       ELSE /\ stores' = [stores EXCEPT ![TargetLocation] =
                            move_or_upload_output_file(
                                @, ChunkName(split_filenames[moved_files + 1]), "chunk")]
            /\ moved_files' = moved_files + 1
            /\ io' = io \cup {"move"}
            /\ UNCHANGED <<report, ppc>>
    /\ UNCHANGED <<pconfig, inputState, wfStatus, split_terminate, split_filenames,
                   last_file, perr>>

\* execute_split, lines 272-275, and execute, lines 405-410: all chunks are
\* moved; delete the input if asked to, return True, final report.
FinishSplit ==
    /\ UNCHANGED <<svars, cvars, fvars>>
    /\ ppc = "move"
    /\ moved_files = Len(split_filenames)
    /\ inputState' = IF delete_input_file THEN "deleted" ELSE inputState
    /\ io' = io \cup (IF delete_input_file THEN {"delete_input"} ELSE {})
    /\ report' = FinalReport(moved_files, TRUE)
    /\ ppc' = "returned"
    /\ UNCHANGED <<pconfig, wfStatus, split_terminate, split_filenames, moved_files,
                   last_file, stores, perr, cancelSeen, lastPoll, flapped>>

PNext ==
    \/ WorkflowStatusChange \/ ExecuteBegin \/ PrepareSplit \/ SplitFileGrouped
    \/ FixedSplitChunk \/ FixedSplitReturn \/ MoveNext \/ FinishSplit

PluginInit == PInit /\ SIdle /\ CIdle /\ FIdle

PluginSpec == PluginInit /\ [][PNext]_vars

\* ------------------------------------------------ SplitFilePlugin.__init__
\* A float: a finite value num/den (den a power of two, so that products
\* with 1024, 1024**2 and 1024**3 are exact), inf or nan.
Finite(n, d) == [kind |-> "finite", num |-> n, den |-> d]
Inf == [kind |-> "inf", num |-> 0, den |-> 1]
NaN == [kind |-> "nan", num |-> 0, den |-> 1]

\* chunk_size *= m, for m a power of two
Times(x, m) ==
    IF x.kind # "finite" THEN x
    ELSE LET g == IF x.den >= m THEN m ELSE x.den
         IN Finite(x.num * (m \div g), x.den \div g)

\* chunk_size < n, for an integer n: false for inf and nan
LessThan(x, n) == x.kind = "finite" /\ (x.num \div x.den) < n

\* int(chunk_size) != chunk_size
IsWhole(x) == x.kind = "finite" /\ x.num % x.den = 0

\* int(chunk_size): truncation towards zero; OverflowError for inf and
\* ValueError for nan.
int(x) == IF x.num >= 0 THEN x.num \div x.den ELSE 0 - ((0 - x.num) \div x.den)
IntRaises(x) ==
    IF x.kind = "inf" THEN "OverflowError"
    ELSE IF x.kind = "nan" THEN "ValueError" ELSE "none"

\* size_unit.lower()
Lower(u) ==
    IF u = "KB" THEN "kb" ELSE IF u = "Mb" THEN "mb" ELSE IF u = "GB" THEN "gb"
    ELSE IF u = "Lines" THEN "lines" ELSE u

SIZE_UNIT_KB == "kb"
SIZE_UNIT_MB == "mb"
SIZE_UNIT_GB == "gb"
SIZE_UNIT_LINES == "lines"

\* pathvalidate.is_valid_filepath on the paths of the model: the empty
\* string and "?" are not valid.
is_valid_filepath(path) == path \notin {"", "?"}

\* Path(projects_path).is_dir()
is_dir(path) == path \in {"/data/datalake", "/custom"}

\* The arguments of the model's constructions.
ChunkSizes ==
    { Finite(0 - 1, 1), Finite(0, 1), Finite(1, 2), Finite(1, 1), Finite(3, 2),
      Finite(2049, 2048), Finite(1, 1024), Finite(1, 1024 * 1024),
      Finite(1, 2048 * 1024), Inf, NaN }
SizeUnits == {"kb", "KB", "Mb", "GB", "lines", "Lines", "", "tb"}

CInit ==
    /\ args \in [input_filename : {"f.nt", ""},
                 chunk_size : ChunkSizes,
                 size_unit : SizeUnits,
                 group_prefix : BOOLEAN,
                 include_header : BOOLEAN,
                 use_directory : BOOLEAN,
                 projects_path : {"/data/datalake", "/nowhere", "?"},
                 custom_target_directory : {"", "/custom", "?"}]
    /\ cpc = "new"
    /\ plugin = None
    /\ cerr = None

\* __init__, lines 153-208.
Construct ==
    /\ UNCHANGED <<svars, pvars, fvars>>
    /\ cpc = "new"
    /\ LET e1 == IF ~is_valid_filepath(args.input_filename)
                 THEN <<"Invalid filename for parameter \"Input filename\". ">> ELSE <<>>
           size_unit == Lower(args.size_unit)
           lines == size_unit = SIZE_UNIT_LINES
           chunk_size ==
               IF size_unit = SIZE_UNIT_KB THEN Times(args.chunk_size, 1024)
               ELSE IF size_unit = SIZE_UNIT_MB THEN Times(args.chunk_size, 1024 * 1024)
               ELSE IF size_unit = SIZE_UNIT_GB THEN Times(args.chunk_size, 1024 * 1024 * 1024)
               ELSE args.chunk_size
           e2 == IF size_unit \notin {SIZE_UNIT_KB, SIZE_UNIT_MB, SIZE_UNIT_GB, SIZE_UNIT_LINES}
                 THEN <<"Invalid size unit. ">> ELSE <<>>
           e3 == IF lines
                 THEN (IF ~IsWhole(chunk_size) \/ LessThan(chunk_size, 1)
                       THEN <<"Invalid chunk size for lines. ">> ELSE <<>>)
                      \o (IF args.group_prefix
                          THEN <<"Grouping lines with the same prefix does not support size unit \"lines\".">>
                          ELSE <<>>)
                 ELSE IF LessThan(chunk_size, 1024)
                      THEN <<"Minimum chunk size is 1024 bytes. ">> ELSE <<>>
           e4 == IF args.group_prefix /\ args.include_header
                 THEN <<"Grouping lines with the same prefix does not support 'headers'.">>
                 ELSE <<>>
           e5 == IF ~args.use_directory THEN <<>>
                 ELSE IF ~is_valid_filepath(args.projects_path)
                 THEN <<"Invalid path for parameter \"Internal projects directory\". ">>
                 ELSE IF ~is_dir(args.projects_path)
                 THEN <<"Directory {projects_path} does not exist. ">> ELSE <<>>
           errors == e1 \o e2 \o e3 \o e4 \o e5
           raise(type, msgs) ==
               /\ cpc' = "raised"
               /\ cerr' = [type |-> type, msgs |-> msgs]
               /\ UNCHANGED plugin
       IN IF lines /\ IntRaises(chunk_size) # "none"
          THEN raise(IntRaises(chunk_size), <<"cannot convert float to integer">>)
          ELSE IF /\ args.use_directory
                  /\ args.custom_target_directory # ""
                  /\ ~is_valid_filepath(args.custom_target_directory)
          THEN raise("ValueError", <<"Invalid path for parameter \"Custom target directory\"">>)
          ELSE IF errors # <<>>
          THEN raise("ValueError", errors)
          ELSE IF IntRaises(chunk_size) # "none"
          THEN raise(IntRaises(chunk_size), <<"cannot convert float to integer">>)
          ELSE /\ cpc' = "constructed"
               /\ plugin' = [input_filename |-> args.input_filename,
                             size |-> int(chunk_size),
                             lines |-> lines,
                             group_prefix |-> args.group_prefix,
                             include_header |-> args.include_header,
                             use_directory |-> args.use_directory,
                             custom_target_directory |-> args.custom_target_directory]
               /\ UNCHANGED cerr
    /\ UNCHANGED args

CNext == Construct

ConstructInit == CInit /\ SIdle /\ PIdle /\ FIdle

ConstructSpec == ConstructInit /\ [][CNext]_vars

\* ------------------------------------ filesplit Split.bysize / bylinecount
\* The scenario of 100 lines under a line-count budget of 40 with header
\* inclusion: line i holds the two decimal digits of i - 1 and a newline.
DigitByte == <<"0", "1", "2", "3", "4", "5", "6", "7", "8", "9">>
ScenarioLine(i) == <<DigitByte[((i - 1) \div 10) + 1], DigitByte[((i - 1) % 10) + 1], NL>>
ScenarioLineCount == 100
ScenarioBudget == 40
ScenarioInput == Flatten([i \in 1..ScenarioLineCount |-> ScenarioLine(i)])

\* Line-count mode: the reader position after up to n further lines.
RECURSIVE TakeLinesOneMore(_, _, _)
TakeLinesOneMore(data, p, n) ==
    IF n < 0 \/ readline(data, p) = <<>> THEN p
    ELSE TakeLinesOneMore(data, p + Len(readline(data, p)), n - 1)

RECURSIVE TakeLines(_, _, _)
TakeLines(data, p, n) ==
    IF n = 0 \/ readline(data, p) = <<>> THEN p
    ELSE TakeLines(data, p + Len(readline(data, p)), n - 1)

\* Byte mode: the reader position after the lines that go into the chunk.
\* Before a line is written, the chunk is closed if it already has content
\* and its accumulated size plus the size of the line would exceed the
\* budget; a line larger than the budget is written alone.
RECURSIVE TakeBytesUntilOver(_, _, _, _, _)
TakeBytesUntilOver(data, p, size, budget, hasContent) ==
    LET line == readline(data, p)
    IN IF line = <<>> THEN p
       ELSE IF size > budget /\ hasContent THEN p
       ELSE TakeBytesUntilOver(data, p + Len(line), size + Len(line), budget, TRUE)

RECURSIVE TakeBytes(_, _, _, _, _)
TakeBytes(data, p, size, budget, hasContent) ==
    LET line == readline(data, p)
    IN IF line = <<>> THEN p
       ELSE IF size + Len(line) > budget /\ hasContent THEN p
       ELSE TakeBytes(data, p + Len(line), size + Len(line), budget, TRUE)

\* includeheader: the first line of the input is captured once and written
\* as the first line of every chunk after the first.
HeaderOfEveryChunk(data, includeheader, k) ==
    IF includeheader THEN readline(data, 0) ELSE <<>>
HeaderOf(data, includeheader, k) ==
    IF includeheader /\ k > 1 THEN readline(data, 0) ELSE <<>>

\* Line-count mode: the number of lines read into a chunk that begins with
\* the given duplicated header (none if empty): the header does not count
\* toward the budget.
LineBudgetHeaderCounts(linecount, header) ==
    IF header # <<>> THEN linecount - 1 ELSE linecount
LineBudget(linecount, header) == linecount

\* A run of the fixed-budget splitter as split_file starts it: the input,
\* the mode and its budget, includeheader.  Whether the bytes of a
\* duplicated header count toward the size of a chunk in byte mode is not
\* specified: both behaviours are runs.
FInit ==
    /\ \/ /\ f_input \in Inputs
          /\ f_lines \in BOOLEAN
          /\ f_budget \in 1..MaxSize
          /\ f_includeheader \in BOOLEAN
       \/ /\ f_input = ScenarioInput
          /\ f_lines = TRUE
          /\ f_budget = ScenarioBudget
          /\ f_includeheader = TRUE
    /\ f_headerInBudget \in (IF f_includeheader /\ ~f_lines THEN BOOLEAN ELSE {FALSE})
    /\ f_pc = "split"
    /\ f_pos = 0
    /\ f_terminate = FALSE
    /\ f_written = <<>>

\* One chunk: the header if it is due, then the lines the budget admits; the
\* chunk is flushed, numbered from 1, and the callback is invoked, which may
\* set the terminate flag.
FixedFlush ==
    /\ UNCHANGED <<svars, pvars, cvars>>
    /\ f_pc = "split"
    /\ ~f_terminate
    /\ f_pos < Len(f_input)
    /\ \E cb \in BOOLEAN :
         LET k == Len(f_written) + 1
             header == HeaderOf(f_input, f_includeheader, k)
             end == IF f_lines
                    THEN TakeLines(f_input, f_pos, LineBudget(f_budget, header))
                    ELSE TakeBytes(f_input, f_pos,
                                   IF f_headerInBudget THEN Len(header) ELSE 0,
                                   f_budget, FALSE)
         IN /\ f_written' = Append(f_written,
                                   [name |-> ChunkName(k),
                                    data |-> header \o SubSeq(f_input, f_pos + 1, end)])
            /\ f_pos' = end
            /\ f_terminate' = cb
    /\ UNCHANGED <<f_input, f_lines, f_budget, f_includeheader, f_headerInBudget, f_pc>>

\* The splitter returns: at the end of the input, or with terminate set.
FixedReturn ==
    /\ UNCHANGED <<svars, pvars, cvars>>
    /\ f_pc = "split"
    /\ f_terminate \/ f_pos >= Len(f_input)
    /\ f_pc' = IF f_pos >= Len(f_input) THEN "done" ELSE "terminated"
    /\ UNCHANGED <<f_input, f_lines, f_budget, f_includeheader, f_headerInBudget,
                   f_pos, f_terminate, f_written>>

FNext == FixedFlush \/ FixedReturn

FixedInit == FInit /\ SIdle /\ PIdle /\ CIdle

FixedSpec == FixedInit /\ [][FNext]_vars

\* ------------------------------------------------- vocabulary of the claims
IsPrefix(a, b) == Len(a) <= Len(b) /\ SubSeq(b, 1, Len(a)) = a

RECURSIVE ConcatData(_)
ConcatData(fs) == IF fs = <<>> THEN <<>> ELSE Head(fs).data \o ConcatData(Tail(fs))

\* The offsets (0-based) at which the lines of a file start.
RECURSIVE LineStartsFrom(_, _)
LineStartsFrom(data, p) ==
    IF p >= Len(data) THEN <<>>
    ELSE <<p>> \o LineStartsFrom(data, p + Len(readline(data, p)))

LineStarts == LineStartsFrom(inputfile, 0)
NumLines == Len(LineStarts)
Line(i) == readline(inputfile, LineStarts[i])
Token(i) == first_word(Line(i))
LineEnd(i) == LineStarts[i] + Len(Line(i))

\* The offset in the input at which the k-th written chunk ends, chunks
\* being laid end to end in the order they were written.
ChunkEnd(k) == Len(ConcatData(SubSeq(written, 1, k)))
ChunkStart(k) == ChunkEnd(k - 1)

\* The first tokens of the lines of a chunk (blank lines have the empty one).
TokensOfData(data) ==
    LET st == LineStartsFrom(data, 0)
    IN { first_word(readline(data, st[i])) : i \in 1..Len(st) }

\* The groups of the input: line i opens a group iff it is the first line or
\* its first token differs from that of line i-1.
OpensGroup(i) == i = 1 \/ Token(i) # Token(i - 1)
GroupOpeners == { i \in 1..NumLines : OpensGroup(i) }
\* the offset at which the group opened by line i ends
GroupEnd(i) ==
    LET later == { j \in GroupOpeners : j > i }
    IN IF later = {} THEN Len(inputfile)
       ELSE LineStarts[CHOOSE j \in later : \A l \in later : j <= l]
GroupSize(i) == GroupEnd(i) - LineStarts[i]
Oversized == { i \in GroupOpeners : GroupSize(i) > maxsize }
FirstOversized == CHOOSE i \in Oversized : \A j \in Oversized : i <= j

Ordinal(name) == DigitsValue(name.num)

\* The written chunk files as they are in the output directory now, in
\* ascending order of their ordinals.
RECURSIVE InOrdinalOrder(_)
InOrdinalOrder(names) ==
    IF names = {} THEN <<>>
    ELSE LET n == CHOOSE x \in names : \A y \in names : Ordinal(x) <= Ordinal(y)
         IN <<n>> \o InOrdinalOrder(names \ {n})

WrittenNames == { written[k].name : k \in 1..Len(written) }
OnDisk(name) == CHOOSE f \in outputdir : f.name = name
EmittedFiles ==
    LET ns == InOrdinalOrder(WrittenNames)
    IN [k \in 1..Len(ns) |-> OnDisk(ns[k])]

\* ------------------------------------------------------------------ claims

\* C1: every chunk written by bygroupedprefix starts and ends on a line
\* boundary of the input (the chunks laid end to end are a prefix of the
\* input), and no chunk ends between two consecutive input lines that have
\* the same first whitespace-delimited token.
C1_GroupNeverSplit ==
    /\ IsPrefix(ConcatData(written), inputfile)
    /\ \A k \in 1..Len(written) :
         /\ ChunkEnd(k) \in { LineEnd(i) : i \in 1..NumLines }
         /\ \A i \in 1..(NumLines - 1) :
              LineEnd(i) = ChunkEnd(k) => Token(i) # Token(i + 1)

\* A completed run of at least two chunks over an input in which two
\* different consecutive lines share their first token.
C1_Witness ==
    /\ pc = "done"
    /\ Len(written) >= 2
    /\ \E i \in 1..(NumLines - 1) : Token(i) = Token(i + 1) /\ Line(i) # Line(i + 1)

\* C2 as stated: for every input on which the run completes, no first token
\* is the first token of lines in two different chunks.
C2_NoTokenInTwoChunks ==
    pc = "done" =>
        \A k, l \in 1..Len(written) :
            k # l => (TokensOfData(written[k].data) \cap TokensOfData(written[l].data))
                         \subseteq {<<>>}

\* All lines with the same first token are consecutive; a blank or
\* whitespace-only line counts as a line with the empty token.
TokensContiguous ==
    \A i, j \in 1..NumLines :
        (i < j /\ Token(i) = Token(j)) => \A m \in i..j : Token(m) = Token(i)

\* C2 amended: on a completed run over an input whose lines with equal first
\* tokens are consecutive, no first token (the empty token of blank lines
\* included) occurs in two different chunks.
C2_NoTokenInTwoChunksIfContiguous ==
    (pc = "done" /\ TokensContiguous) =>
        \A k, l \in 1..Len(written) :
            k # l => TokensOfData(written[k].data) \cap TokensOfData(written[l].data) = {}

C2_Witness ==
    /\ pc = "done"
    /\ TokensContiguous
    /\ Len(written) >= 2
    /\ \E i \in 1..(NumLines - 1) : Token(i) = Token(i + 1) /\ Line(i) # Line(i + 1)
    /\ \E i \in 1..NumLines : Token(i) = <<>>

\* C3: every chunk file written has at most maxsize bytes, in every state of
\* every run (completed, terminated or aborted).
C3_ChunkWithinMaxsize ==
    \A k \in 1..Len(written) :
        /\ Len(written[k].data) <= maxsize
        /\ Len(OnDisk(written[k].name).data) <= maxsize

\* A run aborted by an oversized group after a chunk of exactly maxsize
\* bytes, made of more than one group, was written.  (C3_WitnessDone: a
\* completed run with such a chunk.)
C3_Witness ==
    /\ pc = "error"
    /\ \E k \in 1..Len(written) :
         /\ Len(written[k].data) = maxsize
         /\ Cardinality(TokensOfData(written[k].data)) >= 2

C3_WitnessDone ==
    /\ pc = "done"
    /\ Len(written) >= 2
    /\ \E k \in 1..Len(written) : Len(written[k].data) = maxsize

\* C4: whenever bygroupedprefix aborts because a group exceeds maxsize, the
\* ValueError message names the prefix of the offending group (the group
\* that was open when the error was raised).
C4_OverflowNamesPrefix ==
    pc = "error" =>
        /\ raised.type = "ValueError"
        /\ raised.msg.prefix = current_prefix

\* C5: when the run has aborted on an oversized group, the chunks written
\* are a prefix of the input that stops at or before the first byte of the
\* oversized group (no line of that group is in any chunk), and every chunk
\* written before the error is in the output directory under its name with
\* the content it was written with.
C5_AbortLeavesFlushedChunks ==
    pc = "error" =>
        /\ Oversized # {}
        /\ IsPrefix(ConcatData(written), inputfile)
        /\ Len(ConcatData(written)) <= LineStarts[FirstOversized]
        /\ \A k \in 1..Len(written) :
             /\ [name |-> written[k].name, data |-> written[k].data] \in outputdir
             /\ \A l \in 1..Len(written) : written[l].name = written[k].name => l = k

\* A run aborted after chunks were flushed, with a group closed but not yet
\* flushed and the oversized group after it.
C5_Witness ==
    /\ pc = "error"
    /\ Len(written) >= 1
    /\ current_chunk # <<>>
    /\ LineStarts[FirstOversized] > 0

\* The decimal digits of n, zero-padded on the left to at least width digits.
IsPaddedDecimal(ds, n, width) ==
    /\ \A i \in 1..Len(ds) : ds[i] \in 0..9
    /\ DigitsValue(ds) = n
    /\ Len(ds) >= width
    /\ Len(ds) > width => ds[1] # 0

\* C7: the ordinals of the chunks written in one run start at 1 and increase
\* by exactly 1 from chunk to chunk, and each chunk is named
\* {stem}{delimiter}{ordinal zero-padded to splitzerofill digits}{ext}.
C7_OrdinalsContiguousAndNamed ==
    \A k \in 1..Len(written) :
        LET name == written[k].name
        IN /\ name.stem = InputStem
           /\ name.delim = SPLIT_DELIMITER
           /\ name.ext = InputExt
           /\ IsPaddedDecimal(name.num, Ordinal(name), splitzerofill)
           /\ k > 1 => Ordinal(name) = Ordinal(written[k - 1].name) + 1
           /\ k = 1 => Ordinal(name) = 1

C7_Witness ==
    /\ pc = "done"
    /\ Len(written) >= 3
    /\ splitzerofill = SPLIT_ZERO_FILL

\* C8: when bygroupedprefix has completed (it reached the end of the stream
\* without error), the chunk files of the run, concatenated in ordinal
\* order, are the input byte for byte.
C8_ConcatenationIsInput ==
    pc = "done" => ConcatData(EmittedFiles) = inputfile

\* A completed run of several chunks over an input with a whitespace-only
\* line and a final line without a newline.
C8_Witness ==
    /\ pc = "done"
    /\ Len(written) >= 2
    /\ inputfile # <<>>
    /\ inputfile[Len(inputfile)] # NL
    /\ \E i \in 1..NumLines : Token(i) = <<>>

\* C9: once an invocation of the callback has set the terminate flag, no
\* further chunk file is written, no further manifest row is appended and
\* the callback is not invoked again.
C9_NothingAfterTerminate ==
    \A i \in 1..Len(calls) :
        calls[i].set =>
            /\ Len(calls) = i
            /\ Len(written) = i
            /\ Len(manifest) = calls[i].rows

\* C6: a grouped-prefix run with delete_previous_result disabled, over a
\* target that holds chunks of an earlier run, that has got past the checks
\* of its input succeeds, and the chunks it moved to the target are numbered
\* last_file + 1, last_file + 2, ...
C6_NumberingContinues ==
    (group_prefix /\ ~delete_previous_result /\ last_file > 0
       /\ ppc \in {"returned", "failed"}
       /\ InputError = "none" /\ report # EarlyCancelReport) =>
        /\ ppc = "returned"
        /\ \A k \in 1..moved_files : split_filenames[k] = last_file + k

\* C10: cancellation raises no error, and when execute has returned, no poll
\* having been false after a true one, its report has the "(cancelled)"
\* marker iff a poll in split_callback or in the move loop was true.
C10_CancelledIffPollTrue ==
    /\ ppc = "failed" => ~cancelSeen
    /\ (ppc = "returned" /\ ~flapped) => (report.marker = " (cancelled)" <=> cancelSeen)

\* A run cancelled in the move loop after it moved a chunk.
C10_Witness ==
    /\ ppc = "returned"
    /\ ~flapped
    /\ cancelSeen
    /\ moved_files >= 1
    /\ report.marker = " (cancelled)"

\* A run cancelled in split_callback: the splitter stopped early.
C10_WitnessCallback ==
    /\ ppc = "returned"
    /\ ~flapped
    /\ split_terminate
    /\ Len(split_filenames) < nchunks
    /\ report.marker = " (cancelled)"

\* The offsets of the input at which a group starts or ends: the start of
\* every line that opens a group, and the end of the input.
GroupBoundaries ==
    {0} \cup { LineStarts[i] : i \in GroupOpeners } \cup {Len(inputfile)}

\* C11: in every state of a run (running, completed, terminated, aborted)
\* the chunk files in the output directory, concatenated in ordinal order,
\* are a prefix of the input that ends where a group ends (a group being a
\* maximal run of lines with the same first token); what is buffered and
\* not flushed is in no file.
C11_WrittenIsPrefixAtGroupBoundary ==
    LET c == ConcatData(EmittedFiles)
    IN /\ IsPrefix(c, inputfile)
       /\ Len(c) \in GroupBoundaries
       /\ c = ConcatData(written)
       /\ pc \in {"loop", "terminated"} =>
              c \o current_chunk \o prefix_buffer = SubSeq(inputfile, 1, pos)

\* A run terminated after a chunk was written, with a closed group in the
\* chunk in progress and an open group in the buffer, both not written.
C11_Witness ==
    /\ pc = "terminated"
    /\ Len(written) >= 1
    /\ current_chunk # <<>>
    /\ prefix_buffer # <<>>
    /\ Len(ConcatData(EmittedFiles)) < pos

\* An aborted run that wrote a chunk and discarded the chunk in progress.
C11_WitnessAborted ==
    /\ pc = "error"
    /\ Len(written) >= 1
    /\ current_chunk # <<>>

\* C12: once bygroupedprefix has opened the manifest, its first row is the
\* header (filename, filesize, header) and it has exactly one further row
\* per chunk file written so far, in ascending ordinal order, with the
\* chunk's name, the size of the chunk's file and header False; a callback,
\* when one was given, has been invoked exactly once per written chunk, in
\* that order, with the chunk's name and size, when the manifest already
\* had the chunk's row.
C12_ManifestRowAndCallbackPerChunk ==
    /\ pc = "init" => manifest = <<>> /\ calls = <<>>
    /\ pc # "init" =>
         /\ Len(manifest) = 1 + Len(written)
         /\ manifest[1] = MANIFEST_HEADER
         /\ \A k \in 1..Len(written) :
              /\ manifest[k + 1].filename = written[k].name
              /\ manifest[k + 1].filesize = Len(OnDisk(written[k].name).data)
              /\ manifest[k + 1].filesize = Len(written[k].data)
              /\ manifest[k + 1].header = FALSE
              /\ k > 1 => Ordinal(manifest[k + 1].filename) > Ordinal(manifest[k].filename)
         /\ Len(calls) = IF hasCallback THEN Len(written) ELSE 0
         /\ \A k \in 1..Len(calls) :
              /\ calls[k].path = written[k].name
              /\ calls[k].size = Len(written[k].data)
              /\ calls[k].rows = k + 1

\* A completed run with a callback that wrote several chunks of different
\* sizes.
C12_Witness ==
    /\ pc = "done"
    /\ hasCallback
    /\ Len(written) >= 2
    /\ Len(calls) = Len(written)
    /\ \E k, l \in 1..Len(written) : manifest[k + 1].filesize # manifest[l + 1].filesize

\* Lines i < j have the same non-empty first token and every line between
\* them is blank or whitespace-only.
SeparatedByBlankLines(i, j) ==
    /\ i + 1 < j
    /\ Token(i) # <<>>
    /\ Token(i) = Token(j)
    /\ \A m \in (i + 1)..(j - 1) : Token(m) = <<>>

\* C14: a blank or whitespace-only line neither ends nor starts a group: two
\* lines with the same first token that are separated only by blank lines
\* are in the same chunk, i.e. once both are written no chunk ends between
\* the end of the first and the start of the second.
C14_BlankLineKeepsGroup ==
    \A i, j \in 1..NumLines :
        (SeparatedByBlankLines(i, j) /\ LineEnd(j) <= Len(ConcatData(written))) =>
            \A k \in 1..Len(written) : ChunkEnd(k) \notin LineEnd(i)..LineStarts[j]

BlankLine(i) == StripIsEmpty(Line(i))

\* The line read last, and the first line of the maximal run of lines ending
\* with line n that are all blank (if line n is blank) or all have the first
\* token of line n.
LastLineRead == CHOOSE i \in 1..NumLines : LineEnd(i) = pos
RunStart(n) ==
    LET same(m) == IF BlankLine(n) THEN BlankLine(m)
                   ELSE ~BlankLine(m) /\ TakeWord(SkipSpace(Line(m))) = TakeWord(SkipSpace(Line(n)))
    IN CHOOSE s \in 1..n : /\ \A m \in s..n : same(m)
                           /\ s > 1 => ~same(s - 1)

\* C14 amended: a blank or whitespace-only line has the empty prefix; it
\* ends the open group of lines with a token and starts a group of its own,
\* which only further blank lines extend.  After each line read, the open
\* group (prefix_buffer) is the maximal run of lines ending with that line
\* that are all blank or all have its first token, and current_prefix is the
\* empty prefix or that token.
C14_BlankLineIsOwnGroup ==
    (pc = "loop" /\ current_prefix # None) =>
        LET n == LastLineRead
        IN /\ prefix_buffer = SubSeq(inputfile, LineStarts[RunStart(n)] + 1, pos)
           /\ current_prefix = IF BlankLine(n) THEN <<>> ELSE TakeWord(SkipSpace(Line(n)))
           /\ BlankLine(n) <=> StripIsEmpty(prefix_buffer)

\* Two different blank lines were read after a line with a token: the open
\* group is those two blank lines, and the group before them was closed.
C14_Witness ==
    /\ pc = "loop"
    /\ current_prefix = <<>>
    /\ LET n == LastLineRead
       IN /\ n >= 3
          /\ BlankLine(n) /\ BlankLine(n - 1) /\ ~BlankLine(n - 2)
          /\ Line(n) # Line(n - 1)
          /\ Len(prefix_buffer) = Len(Line(n)) + Len(Line(n - 1))
    /\ current_chunk # <<>>

\* A name of the form {input stem}_{9 digits}{input suffix}.
StemNineDigitsSuffix(name) ==
    /\ name.stem = InputStem /\ name.delim = "_" /\ name.ext = InputExt
    /\ Len(name.num) = 9 /\ \A i \in 1..9 : name.num[i] \in 0..9

\* The target location as C20 names it.
C20_Target ==
    IF custom_target_directory # "" THEN "custom"
    ELSE IF use_directory THEN "resources" ELSE "api"

C20_WitnessResources ==
    /\ ppc = "split"
    /\ delete_previous_result
    /\ use_directory
    /\ custom_target_directory = ""
    /\ stores0["resources"] = PreviousFiles
    /\ stores["resources"] # stores0["resources"]

\* The names of the chunks moved or uploaded so far.
MovedNames == { ChunkName(split_filenames[k]) : k \in 1..moved_files }

\* C13 as stated: a chunk is moved or uploaded under a name that existed at
\* the destination when execute was called only if the previous results
\* were deleted first (otherwise the write fails).
C13_WritesAreExclusive ==
    \A n \in MovedNames :
        (\E f \in stores0[TargetLocation] : f.name = n) => delete_previous_result

\* C13 amended: moving or uploading a chunk replaces a file of the same name
\* at the destination and does not fail: the destination then holds exactly
\* one file of each moved chunk's name, with the chunk's content, and every
\* other file there is one it held when execute was called.
C13_WritesReplace ==
    moved_files > 0 =>
        /\ ppc # "failed"
        /\ \A n \in MovedNames :
             \A f \in stores[TargetLocation] : f.name = n <=> f = [name |-> n, data |-> "chunk"]
        /\ \A n \in MovedNames : \E f \in stores[TargetLocation] : f.name = n
        /\ \A f \in stores[TargetLocation] : f.name \notin MovedNames => f \in stores0[TargetLocation]

\* A finished run without delete_previous_result that uploaded chunks 1, 2
\* and 3 through the API over the chunks 1 and 2 of an earlier run.
C13_Witness ==
    /\ ppc = "returned"
    /\ ~delete_previous_result
    /\ TargetLocation = "api"
    /\ stores0["api"] = PreviousFiles
    /\ moved_files = 3
    /\ [name |-> ChunkName(1), data |-> "previous"] \notin stores["api"]
    /\ [name |-> ChunkName(1), data |-> "chunk"] \in stores["api"]

\* C17: a configuration error is raised before any I/O side effect: a plugin
\* whose custom target directory is invalid or does not exist fails with
\* ValueError, and never fetches the input, deletes a previous result,
\* writes a chunk, moves a chunk or deletes the input, in directory mode and
\* in API mode.
C17_ConfigErrorBeforeIO ==
    custom_target_directory = "absent" =>
        /\ io = {}
        /\ ppc = "failed" => perr = "ValueError"

\* execute got as far as the checks of the input in execute_split: it passed
\* the check of the custom target directory and the first poll.
ReachedInputCheck ==
    /\ ppc \notin {"execute", "prepare"}
    /\ perr # "ValueError"
    /\ report # EarlyCancelReport

\* Nothing was produced, moved or deleted.
NothingDone ==
    /\ split_filenames = <<>>
    /\ moved_files = 0
    /\ stores = stores0
    /\ io \subseteq {"fetch"}
    /\ "delete_previous" \notin io /\ "delete_input" \notin io

\* C18 as stated: when the input is missing or empty, execute fails before
\* splitting with FileNotFoundError (missing) or OSError (empty), and
\* nothing was produced, moved or deleted.
C18_MissingOrEmptyInputRaises ==
    (ReachedInputCheck /\ inputState \in {"missing", "empty"}) =>
        /\ ppc = "failed"
        /\ perr = IF inputState = "missing" THEN "FileNotFoundError" ELSE "OSError"
        /\ NothingDone

\* C18 amended: the same, except that in API mode a missing input makes
\* get_file_api raise HTTPError.
C18_MissingOrEmptyInputRaisesByMode ==
    (ReachedInputCheck /\ inputState \in {"missing", "empty"}) =>
        /\ ppc = "failed"
        /\ perr = IF inputState = "empty" THEN "OSError"
                  ELSE IF use_directory THEN "FileNotFoundError" ELSE "HTTPError"
        /\ NothingDone
        /\ io = {}

\* A failed run on an empty input, asked to delete previous results, of
\* which the target holds some, and the input.
C18_Witness ==
    /\ ppc = "failed"
    /\ inputState = "empty"
    /\ perr = "OSError"
    /\ delete_previous_result /\ delete_input_file
    /\ TargetLocation \in Locations
    /\ stores0[TargetLocation] = PreviousFiles

\* A failed run in API mode on a missing input.
C18_WitnessApiMissing ==
    /\ ppc = "failed"
    /\ ~use_directory
    /\ inputState = "missing"
    /\ perr = "HTTPError"
    /\ delete_previous_result /\ delete_input_file

\* The run finished: the split completed and every chunk was moved.
RunFinished ==
    /\ ppc = "returned"
    /\ report # EarlyCancelReport
    /\ Len(split_filenames) = nchunks
    /\ moved_files = Len(split_filenames)

\* C19: when execute has ended, the input has been deleted iff
\* delete_input_file is set and the run finished (the split completed and
\* every chunk was moved or uploaded).
C19_InputDeletedIffFinished ==
    ppc \in {"returned", "failed"} =>
        (inputState = "deleted" <=> (delete_input_file /\ RunFinished))

\* The budget is valid as C15 defines it.
BudgetValid ==
    LET u == Lower(args.size_unit)
        x == args.chunk_size
        m == IF u = "kb" THEN 1024 ELSE IF u = "mb" THEN 1024 * 1024
             ELSE 1024 * 1024 * 1024
    IN /\ u \in {"kb", "mb", "gb", "lines"}
       /\ u = "lines" => x.kind = "finite" /\ x.num % x.den = 0 /\ x.num >= x.den
       /\ u # "lines" => \/ x.kind = "inf"
                         \/ x.kind = "finite" /\ Times(x, m).num >= 1024 * Times(x, m).den

\* C15: construction raises ValueError unless the budget is valid, and a
\* constructed plugin has a whole size, at least 1 in lines mode and at
\* least 1024 in byte mode.
C15_InvalidBudgetRaisesValueError ==
    /\ (cpc \in {"constructed", "raised"} /\ ~BudgetValid) =>
           cpc = "raised" /\ cerr.type = "ValueError"
    /\ cpc = "constructed" =>
           /\ plugin.size \in Int
           /\ plugin.size >= IF plugin.lines THEN 1 ELSE 1024

\* C16: construction with group_prefix together with size unit lines, or
\* with include_header, raises ValueError; no constructed plugin has
\* group_prefix with lines or with include_header.
C16_GroupingExcludesLinesAndHeader ==
    /\ (/\ cpc \in {"constructed", "raised"}
        /\ args.group_prefix
        /\ Lower(args.size_unit) = "lines" \/ args.include_header) =>
           cpc = "raised" /\ cerr.type = "ValueError"
    /\ cpc = "constructed" =>
           ~(plugin.group_prefix /\ (plugin.lines \/ plugin.include_header))

\* The size of the group that starts at offset p of the input.
GroupSizeAt(p) == GroupSize(CHOOSE i \in GroupOpeners : LineStarts[i] = p)

\* C21: the limits are inclusive.  The run aborts only if some group is
\* strictly larger than maxsize (a group of exactly maxsize bytes is
\* accepted); a chunk is never closed before a group that would have
\* brought it to exactly maxsize bytes; and the scenario of groups of 6, 4
\* and 8 bytes under a budget of 10 (300, 200, 400 under 500) ends with
\* chunk 1 = the first two groups (10 bytes) and chunk 2 = the third.
C21_BoundariesInclusive ==
    /\ pc = "error" => \E i \in GroupOpeners : GroupSize(i) > maxsize
    /\ \A k \in 1..(Len(written) - 1) :
           Len(written[k].data) + GroupSizeAt(ChunkEnd(k)) # maxsize
    /\ (pc = "done" /\ inputfile = ExampleInput /\ maxsize = ExampleMaxsize) =>
           /\ Len(written) = 2
           /\ written[1].data = ExampleA \o ExampleB
           /\ written[2].data = ExampleC

\* The scenario has completed.
C21_Witness ==
    /\ pc = "done"
    /\ inputfile = ExampleInput
    /\ maxsize = ExampleMaxsize
    /\ Len(written) = 2
    /\ Len(written[1].data) = maxsize

\* A completed run over a group of exactly maxsize bytes, after a chunk of
\* exactly maxsize bytes made of two groups.
C21_WitnessGroupAtLimit ==
    /\ pc = "done"
    /\ Len(written) >= 2
    /\ Len(written[1].data) = maxsize
    /\ Cardinality(TokensOfData(written[1].data)) >= 2
    /\ \E i \in GroupOpeners : GroupSize(i) = maxsize

\* C26: packing is greedy.  Of two consecutive chunk files the first could
\* not have taken the first group of the second (their sizes add up to more
\* than maxsize), and no chunk file is empty, in every state of every run.
C26_GreedyPacking ==
    /\ \A k \in 1..(Len(written) - 1) :
           Len(written[k].data) + GroupSizeAt(ChunkEnd(k)) > maxsize
    /\ \A k \in 1..Len(written) :
           /\ written[k].data # <<>>
           /\ OnDisk(written[k].name).data # <<>>

\* A completed run of three chunks whose first chunk holds two groups and is
\* not full: the next group was the one that did not fit.
C26_Witness ==
    /\ pc = "done"
    /\ Len(written) >= 3
    /\ Len(written[1].data) < maxsize
    /\ Cardinality(TokensOfData(written[1].data)) >= 2

\* bygroupedprefix has returned or raised.
Returned == pc \in {"done", "terminated", "error"}

\* C27: every run of bygroupedprefix returns or raises; in a state where the
\* terminate flag is set no further line is read (the read position does not
\* move again) and the loop head leaves the loop; and a run started with the
\* flag set reads nothing, writes no chunk, calls no callback and leaves the
\* manifest with its header only.
C27_TerminatesAndStopsReading ==
    /\ <>Returned
    /\ [][terminate => pos' = pos]_vars
    /\ [][(terminate /\ pc = "loop") => pc' = "terminated"]_vars
    /\ (terminate /\ pc = "init") =>
           [](/\ pos = 0 /\ written = <<>> /\ calls = <<>> /\ outputdir = {}
              /\ Returned => (pc = "terminated" /\ manifest = <<MANIFEST_HEADER>>))

\* The flag was set by the callback of a chunk flush while input lines were
\* still unread, and the run has returned.
C27_Witness ==
    /\ pc = "terminated"
    /\ terminate
    /\ Len(written) >= 1
    /\ pos > 0
    /\ pos < Len(inputfile)

\* A run started with the flag set has returned.
C27_WitnessSetAtStart ==
    /\ pc = "terminated"
    /\ pos = 0
    /\ Len(inputfile) > 0
    /\ manifest = <<MANIFEST_HEADER>>

\* The files of a place that are chunks moved or uploaded by this run.
NewFiles(loc) == { f \in stores[loc] : f.data = "chunk" }

\* C28: when split_callback has seen the cancellation and no later poll
\* found the workflow running again, execute returns with moved_files = 0,
\* no place has received a file and the report says cancelled with an
\* entity_count of 0.  In every state the files moved or uploaded are the
\* first moved_files chunks produced, in the order of their ordinals, and
\* the report of a returned run has entity_count = moved_files.
C28_CancelledSplitMovesNothing ==
    /\ (ppc = "returned" /\ split_terminate /\ ~flapped) =>
           /\ moved_files = 0
           /\ \A loc \in Locations : NewFiles(loc) = {}
           /\ "move" \notin io
           /\ report = [entity_count |-> 0, text |-> "files generated",
                        marker |-> " (cancelled)"]
    /\ moved_files <= Len(split_filenames)
    /\ \A k \in 1..Len(split_filenames) : split_filenames[k] = k
    /\ \A loc \in Locations :
           NewFiles(loc) =
               IF loc = TargetLocation
               THEN { [name |-> ChunkName(k), data |-> "chunk"] : k \in 1..moved_files }
               ELSE {}
    /\ ppc = "returned" => report.entity_count = moved_files

\* split_callback saw the cancellation at the second of three chunks, the
\* workflow stayed cancelled and execute has returned.
C28_Witness ==
    /\ ppc = "returned"
    /\ split_terminate
    /\ ~flapped
    /\ Len(split_filenames) = 2
    /\ nchunks = 3
    /\ moved_files = 0

\* The move loop was cancelled after two of three chunks.
C28_WitnessPrefix ==
    /\ ppc = "returned"
    /\ Len(split_filenames) = 3
    /\ moved_files = 2
    /\ report.entity_count = 2

\* delete_previous_results has run.
DeletePreviousResultsDone ==
    \/ ppc \in {"split", "move"}
    \/ ppc = "failed" /\ perr = "TypeError"
    \/ ppc = "returned" /\ report # EarlyCancelReport

\* The previous chunks of the input at the target when execute was called.
PreviousChunks == { f \in stores0[TargetLocation] : StemNineDigitsSuffix(f.name) }

\* C29: after delete_previous_results, last_file is the highest ordinal of
\* the files {stem}_{9 digits}{suffix} at the target (0 if there is none)
\* when group_prefix is set and delete_previous_result is not, and 0
\* otherwise.  So a non-grouped run without delete_previous_result numbers
\* its chunks from 1: a previous chunk is gone from the target exactly if a
\* chunk of the same number has been moved there, which replaced it.
C29_LastFileAndNumbering ==
    DeletePreviousResultsDone =>
        /\ IF group_prefix /\ ~delete_previous_result /\ PreviousChunks # {}
           THEN /\ \E f \in PreviousChunks : DigitsValue(f.name.num) = last_file
                /\ \A f \in PreviousChunks : DigitsValue(f.name.num) <= last_file
           ELSE last_file = 0
        /\ (~group_prefix /\ ~delete_previous_result) =>
               /\ \A k \in 1..Len(split_filenames) : split_filenames[k] = k
               /\ \A f \in PreviousChunks :
                      IF f.name \in MovedNames
                      THEN /\ f \notin stores[TargetLocation]
                           /\ [name |-> f.name, data |-> "chunk"] \in stores[TargetLocation]
                      ELSE f \in stores[TargetLocation]

\* A non-grouped run without delete_previous_result has returned: it moved
\* its only chunk over chunk 1 of an earlier run, whose chunk 2 is still at
\* the target.
C29_Witness ==
    /\ ppc = "returned"
    /\ ~group_prefix
    /\ ~delete_previous_result
    /\ last_file = 0
    /\ nchunks = 1
    /\ moved_files = 1
    /\ [name |-> ChunkName(1), data |-> "chunk"] \in stores[TargetLocation]
    /\ [name |-> ChunkName(2), data |-> "previous"] \in stores[TargetLocation]

\* A grouped run without delete_previous_result found the chunks 1 and 2 of
\* an earlier run.
C29_WitnessGrouped ==
    /\ ppc = "split"
    /\ group_prefix
    /\ ~delete_previous_result
    /\ last_file = 2

\* ------------------------------------- claims on the fixed-budget splitter
\* The number of lines of a file.
LinesOf(data) == Len(LineStartsFrom(data, 0))

\* The k-th chunk written by the fixed-budget splitter.
F_Data(k) == f_written[k].data

\* The k-th chunk without the line at its head when that line is a
\* duplicated header (header inclusion is on and k > 1).
F_Body(k) ==
    IF f_includeheader /\ k > 1
    THEN SubSeq(F_Data(k), Len(readline(F_Data(k), 0)) + 1, Len(F_Data(k)))
    ELSE F_Data(k)

RECURSIVE F_ConcatBodies(_)
F_ConcatBodies(k) == IF k = 0 THEN <<>> ELSE F_ConcatBodies(k - 1) \o F_Body(k)

\* The input line that follows the lines of the first k chunks.
F_NextLine(k) == readline(f_input, Len(F_ConcatBodies(k)))

\* The lines of the input read so far that are longer than the budget.
F_OversizedLines ==
    { readline(f_input, p) : p \in { q \in 0..(f_pos - 1) :
          /\ q \in { LineStartsFrom(f_input, 0)[i] : i \in 1..LinesOf(f_input) }
          /\ Len(readline(f_input, q)) > f_budget } }

\* C22 as stated: in byte mode every chunk file has at most budget bytes
\* unless it consists of a single line longer than the budget; every line
\* longer than the budget is a chunk of its own; and a chunk that is followed
\* by another has content and could not have taken the next line.
C22_ChunkWithinBudget ==
    ~f_lines =>
        /\ \A k \in 1..Len(f_written) :
               \/ Len(F_Data(k)) <= f_budget
               \/ LinesOf(F_Data(k)) = 1 /\ Len(F_Data(k)) > f_budget
        /\ \A line \in F_OversizedLines :
               \E k \in 1..Len(f_written) : F_Data(k) = line
        /\ \A k \in 1..(Len(f_written) - 1) :
               /\ F_Data(k) # <<>>
               /\ Len(F_Data(k)) + Len(F_NextLine(k)) > f_budget

\* C22 amended: the same of every chunk without its duplicated header line.
C22_ChunkBodyWithinBudget ==
    ~f_lines =>
        /\ \A k \in 1..Len(f_written) :
               \/ Len(F_Body(k)) <= f_budget
               \/ LinesOf(F_Body(k)) = 1 /\ Len(F_Body(k)) > f_budget
        /\ \A line \in F_OversizedLines :
               \E k \in 1..Len(f_written) : F_Body(k) = line
        /\ \A k \in 1..(Len(f_written) - 1) :
               /\ F_Body(k) # <<>>
               /\ Len(F_Data(k)) + Len(F_NextLine(k)) > f_budget

\* A completed run in byte mode with header inclusion: a chunk of two lines
\* within the budget, then a chunk of the header and a line longer than the
\* budget.
C22_Witness ==
    /\ f_pc = "done"
    /\ ~f_lines
    /\ f_includeheader
    /\ Len(f_written) >= 2
    /\ LinesOf(F_Data(1)) = 2
    /\ Len(F_Body(2)) > f_budget
    /\ LinesOf(F_Data(2)) = 2

\* The same without header inclusion: a line longer than the budget is a
\* chunk between two chunks within the budget.
C22_WitnessNoHeader ==
    /\ f_pc = "done"
    /\ ~f_lines
    /\ ~f_includeheader
    /\ Len(f_written) = 3
    /\ Len(F_Data(2)) > f_budget
    /\ Len(F_Data(1)) = f_budget

\* C23: in line-count mode every chunk but the last written holds exactly
\* linecount lines, not counting a duplicated header line at its head (with
\* which it has linecount + 1 lines).
C23_LineCountExact ==
    f_lines =>
        \A k \in 1..(Len(f_written) - 1) :
            /\ LinesOf(F_Body(k)) = f_budget
            /\ LinesOf(F_Data(k)) =
                   IF f_includeheader /\ k > 1 THEN f_budget + 1 ELSE f_budget

\* A completed run over four lines with a budget of two lines and header
\* inclusion: the second chunk has three lines.
C23_Witness ==
    /\ f_pc = "done"
    /\ f_lines
    /\ f_includeheader
    /\ f_budget = 2
    /\ Len(f_written) = 2
    /\ LinesOf(F_Data(1)) = 2
    /\ LinesOf(F_Data(2)) = 3

\* C24: with header inclusion every chunk after the first begins with the
\* first line of the input; the first chunk is a piece of the input from
\* its start (it holds the header as the stream has it, not a copy before
\* it); and the chunks without those duplicated lines, laid end to end, are
\* the input read so far, the whole input once the run has completed.
C24_HeaderInEveryLaterChunk ==
    f_includeheader =>
        /\ \A k \in 2..Len(f_written) :
               /\ readline(F_Data(k), 0) = readline(f_input, 0)
               /\ IsPrefix(readline(f_input, 0), F_Data(k))
        /\ Len(f_written) >= 1 =>
               /\ IsPrefix(F_Data(1), f_input)
               /\ IsPrefix(readline(f_input, 0), F_Data(1))
        /\ F_ConcatBodies(Len(f_written)) = SubSeq(f_input, 1, f_pos)
        /\ f_pc = "done" => F_ConcatBodies(Len(f_written)) = f_input

\* A completed run in byte mode with header inclusion that wrote three
\* chunks; the header differs from the other lines.
C24_Witness ==
    /\ f_pc = "done"
    /\ f_includeheader
    /\ ~f_lines
    /\ Len(f_written) = 3
    /\ \A k \in 2..3 : readline(F_Body(k), 0) # readline(f_input, 0)

\* The same in line-count mode.
C24_WitnessLines ==
    /\ f_pc = "done"
    /\ f_includeheader
    /\ f_lines
    /\ Len(f_written) = 3
    /\ \A k \in 2..3 : readline(F_Body(k), 0) # readline(f_input, 0)

\* The lines i..j of the scenario's input.
ScenarioLines(i, j) == Flatten([n \in 1..(j - i + 1) |-> ScenarioLine(i + n - 1)])

\* The scenario has run to its end.
ScenarioDone ==
    /\ f_pc = "done"
    /\ f_input = ScenarioInput
    /\ f_lines
    /\ f_budget = ScenarioBudget
    /\ f_includeheader

====
